---- MODULE Spec2Model ----
(***************************************************************************)
(* Model of the screen-coding overlay (src/main.py, src/utils.py,          *)
(* src/worker.py, src/api_client.py).                                      *)
(*                                                                         *)
(* The UI thread runs one handler at a time (Qt event loop); each handler  *)
(* is one action.  Every AnalysisWorker is a thread of its own and takes   *)
(* one step per action; its signals reach the UI thread through a queue.   *)
(*                                                                         *)
(* calls / diag are the record of the most recent UI handler: the calls it *)
(* made to the OS and to Qt (with argument and return value) and the lines *)
(* it printed; slotArg is the signal it was invoked with, when it is a     *)
(* slot.                                                                   *)
(***************************************************************************)
EXTENDS Integers, Sequences, FiniteSets, TLC

VARIABLES platform, exstyle, affinity, translucent, opacity,
          status_label, text_area, shown, appRunning,
          handler, completed, calls, diag,
          apiKey, workers, current, sigq, slotArg

vars == <<platform, exstyle, affinity, translucent, opacity,
          status_label, text_area, shown, appRunning,
          handler, completed, calls, diag,
          apiKey, workers, current, sigq, slotArg>>

winVars == <<platform, exstyle, affinity, translucent, opacity>>
uiVars == <<status_label, text_area, shown, appRunning, handler, completed,
            calls, diag, current, slotArg>>

(***************************************************************************)
(* Bounds                                                                  *)
(***************************************************************************)
MaxWorkers == 1
MaxChunks == 2
\* Worker objects in the runs that look at two requests in flight together
MaxOverlap == 2

(***************************************************************************)
(* Program constants                                                       *)
(***************************************************************************)
GWL_EXSTYLE == -20
WS_EX_LAYERED == 524288
WS_EX_TOPMOST == 8
WDA_NONE == 0
WDA_MONITOR == 1
WDA_EXCLUDEFROMCAPTURE == 17

None == -1

\* Extended styles the freshly created top-level window can have: always on
\* top, with or without the layered bit Qt sets for translucency.
InitStyles == {WS_EX_TOPMOST, WS_EX_TOPMOST + WS_EX_LAYERED}

Platforms == {"Windows", "Linux"}
CallResults == {"ok", "fail", "raise"}

\* prev & WS_EX_LAYERED
HasLayered(x) == (x \div WS_EX_LAYERED) % 2 = 1
\* prev & ~WS_EX_LAYERED
ClearLayered(x) == IF HasLayered(x) THEN x - WS_EX_LAYERED ELSE x
SetLayered(x) == IF HasLayered(x) THEN x ELSE x + WS_EX_LAYERED

Call(fn, arg, ret) == [fn |-> fn, arg |-> arg, ret |-> ret]

STATUS_INIT == "Ready (Ctrl+Alt+S)"
STATUS_PRIVACY_ON == "Ready (Privacy On) - Ctrl+Alt+S"
STATUS_PRIVACY_FAIL == "Ready (Privacy Fail) - Ctrl+Alt+S"

(***************************************************************************)
(* utils.clear_ws_ex_layered: read the extended style; when the layered    *)
(* bit is set, write the style without it and trigger a frame change.      *)
(* readOk = FALSE is the read raising, caught by the except clause.        *)
(***************************************************************************)
clear_ws_ex_layered(style, readOk) ==
    IF ~readOk
    THEN [prev |-> None, style |-> style,
          calls |-> <<Call("GetWindowLong", GWL_EXSTYLE, None)>>,
          diag |-> <<"Error clearing WS_EX_LAYERED">>]
    ELSE IF HasLayered(style)
    THEN [prev |-> style, style |-> ClearLayered(style),
          calls |-> <<Call("GetWindowLong", GWL_EXSTYLE, style),
                      Call("SetWindowLong", ClearLayered(style), 0),
                      Call("SetWindowPos", 0, 0)>>,
          diag |-> <<>>]
    ELSE [prev |-> style, style |-> style,
          calls |-> <<Call("GetWindowLong", GWL_EXSTYLE, style)>>,
          diag |-> <<>>]

(***************************************************************************)
(* utils.restore_exstyle                                                   *)
(***************************************************************************)
restore_exstyle(style, prev_exstyle) ==
    IF prev_exstyle = None
    THEN [ret |-> FALSE, style |-> style, calls |-> <<>>]
    ELSE [ret |-> TRUE, style |-> prev_exstyle,
          calls |-> <<Call("SetWindowLong", prev_exstyle, 0),
                      Call("SetWindowPos", 0, 0)>>]

\* set_window_affinity with the fallback's result dropped: a failed strong
\* call is reported as a failure whatever the fallback call did.
set_window_affinity_fallback_ignored(plat, aff, allow_capture, r1, r2) ==
    LET first == IF allow_capture THEN WDA_NONE ELSE WDA_EXCLUDEFROMCAPTURE
        r1ret == IF r1 = "ok" THEN 1 ELSE IF r1 = "fail" THEN 0 ELSE None
        r2ret == IF r2 = "ok" THEN 1 ELSE IF r2 = "fail" THEN 0 ELSE None
        call1 == Call("SetWindowDisplayAffinity", first, r1ret)
        call2 == Call("SetWindowDisplayAffinity", WDA_MONITOR, r2ret)
    IN  IF plat # "Windows"
        THEN [ret |-> FALSE, affinity |-> aff, calls |-> <<>>,
              diag |-> <<"SetWindowDisplayAffinity is only supported on Windows.">>]
        ELSE IF r1 = "ok"
        THEN [ret |-> TRUE, affinity |-> first, calls |-> <<call1>>, diag |-> <<>>]
        ELSE IF r1 = "raise" \/ allow_capture
        THEN [ret |-> FALSE, affinity |-> aff, calls |-> <<call1>>,
              diag |-> <<"Failed to set display affinity">>]
        ELSE [ret |-> FALSE,
              affinity |-> IF r2 = "ok" THEN WDA_MONITOR ELSE aff,
              calls |-> <<call1, call2>>,
              diag |-> <<"Failed to set display affinity",
                         "Attempting fallback to WDA_MONITOR...",
                         "Failed to set WDA_MONITOR">>]

(***************************************************************************)
(* utils.set_window_affinity.  r1, r2 are what the OS does with the first  *)
(* and with the fallback SetWindowDisplayAffinity call.                    *)
(***************************************************************************)
set_window_affinity(plat, aff, allow_capture, r1, r2) ==
    LET first == IF allow_capture THEN WDA_NONE ELSE WDA_EXCLUDEFROMCAPTURE
        call1 == Call("SetWindowDisplayAffinity", first,
                      IF r1 = "ok" THEN 1 ELSE IF r1 = "fail" THEN 0 ELSE None)
        call2 == Call("SetWindowDisplayAffinity", WDA_MONITOR,
                      IF r2 = "ok" THEN 1 ELSE IF r2 = "fail" THEN 0 ELSE None)
    IN  IF plat # "Windows"
        THEN [ret |-> FALSE, affinity |-> aff, calls |-> <<>>,
              diag |-> <<"SetWindowDisplayAffinity is only supported on Windows.">>]
        ELSE IF r1 = "raise"
        THEN [ret |-> FALSE, affinity |-> aff, calls |-> <<call1>>,
              diag |-> <<"Error setting window affinity">>]
        ELSE IF r1 = "ok"
        THEN [ret |-> TRUE, affinity |-> first, calls |-> <<call1>>, diag |-> <<>>]
        ELSE IF allow_capture
        THEN [ret |-> FALSE, affinity |-> aff, calls |-> <<call1>>,
              diag |-> <<"Failed to set display affinity">>]
        ELSE IF r2 = "raise"
        THEN [ret |-> FALSE, affinity |-> aff, calls |-> <<call1, call2>>,
              diag |-> <<"Failed to set display affinity",
                         "Attempting fallback to WDA_MONITOR...",
                         "Error setting window affinity">>]
        ELSE IF r2 = "fail"
        THEN [ret |-> FALSE, affinity |-> aff, calls |-> <<call1, call2>>,
              diag |-> <<"Failed to set display affinity",
                         "Attempting fallback to WDA_MONITOR...",
                         "Failed to set WDA_MONITOR">>]
        ELSE [ret |-> TRUE, affinity |-> WDA_MONITOR, calls |-> <<call1, call2>>,
              diag |-> <<"Failed to set display affinity",
                         "Attempting fallback to WDA_MONITOR...",
                         "Fallback to WDA_MONITOR successful.">>]

\* The finally block without the two attribute restores.
retry_finally_exstyle_only(style, prev_exstyle, prev_translucent, prev_opacity) ==
    LET r == restore_exstyle(style, prev_exstyle)
    IN  [exstyle |-> r.style, translucent |-> FALSE, opacity |-> 100,
         calls |-> r.calls]

(***************************************************************************)
(* The finally block of apply_privacy's retry: restore the exstyle saved   *)
(* by the FIRST clear, then the two UI attributes.                         *)
(***************************************************************************)
retry_finally(style, prev_exstyle, prev_translucent, prev_opacity) ==
    LET r == restore_exstyle(style, prev_exstyle)
    IN  [exstyle |-> r.style,
         translucent |-> prev_translucent,
         opacity |-> prev_opacity,
         calls |-> r.calls \o
                   <<Call("setAttribute", IF prev_translucent THEN 1 ELSE 0, 0),
                     Call("setWindowOpacity", prev_opacity, 0)>>]

(***************************************************************************)
(* OverlayWindow.apply_privacy, from the window state w and the OS's       *)
(* answers in:                                                             *)
(*   read1, read2       whether the style read of each clear succeeds      *)
(*   s1, f1, s2, f2     strong / fallback affinity call of each attempt    *)
(*   qt                 whether Qt re-applied the layered style when the   *)
(*                      translucency attributes were switched off          *)
(***************************************************************************)
apply_privacy(w, in) ==
    LET c1 == clear_ws_ex_layered(w.exstyle, in.read1)
        a1 == set_window_affinity(w.platform, w.affinity, FALSE, in.s1, in.f1)
    IN  IF a1.ret
        THEN LET r1 == restore_exstyle(c1.style, c1.prev)
             IN  [exstyle |-> r1.style, affinity |-> a1.affinity,
                  translucent |-> w.translucent, opacity |-> w.opacity,
                  status |-> STATUS_PRIVACY_ON,
                  calls |-> c1.calls \o a1.calls \o r1.calls,
                  diag |-> c1.diag \o a1.diag \o
                           <<"Privacy mode enabled: Window excluded from capture.">>]
        ELSE LET prev_translucent == w.translucent
                 prev_opacity == w.opacity
                 qtcalls == <<Call("setAttribute", 0, 0),
                              Call("setWindowOpacity", 100, 0)>>
                 styleQ == IF in.qt /\ HasLayered(w.exstyle)
                           THEN SetLayered(c1.style) ELSE c1.style
                 c2 == clear_ws_ex_layered(styleQ, in.read2)
                 a2 == set_window_affinity(w.platform, a1.affinity, FALSE,
                                           in.s2, in.f2)
                 pre == c1.calls \o a1.calls \o qtcalls \o c2.calls \o a2.calls
                 dpre == c1.diag \o a1.diag \o
                         <<"Initial privacy enable failed; retrying without translucency/opacities...">>
                         \o c2.diag \o a2.diag
             IN  IF a2.ret
                 THEN LET r2 == restore_exstyle(c2.style, c2.prev)
                          fin == retry_finally(r2.style, c1.prev,
                                               prev_translucent, prev_opacity)
                      IN  [exstyle |-> fin.exstyle, affinity |-> a2.affinity,
                           translucent |-> fin.translucent,
                           opacity |-> fin.opacity,
                           status |-> STATUS_PRIVACY_ON,
                           calls |-> pre \o r2.calls \o fin.calls,
                           diag |-> dpre \o
                                    <<"Privacy mode enabled after disabling translucency/opacities.">>]
                 ELSE LET fin == retry_finally(c2.style, c1.prev,
                                               prev_translucent, prev_opacity)
                      IN  [exstyle |-> fin.exstyle, affinity |-> a2.affinity,
                           translucent |-> fin.translucent,
                           opacity |-> fin.opacity,
                           status |-> STATUS_PRIVACY_FAIL,
                           calls |-> pre \o fin.calls,
                           diag |-> dpre \o
                                    <<"Failed to enable privacy mode even after retry.">>]

PrivacyInputs ==
    [read1 : BOOLEAN, read2 : BOOLEAN,
     s1 : CallResults, f1 : CallResults,
     s2 : CallResults, f2 : CallResults, qt : BOOLEAN]

(***************************************************************************)
(* Texts                                                                   *)
(***************************************************************************)
NoImage == ""
NoKey == ""
DEFAULT_PROMPT == "Analyze this code and provide a solution."
MODEL_NAME == "meta-llama/Llama-4-Maverick-17B-128E-Instruct-FP8"
KEY_MISSING_MSG == "Together API Key is missing. Please set TOGETHER_API_KEY in .env or pass it to constructor."
PROCESSING == "<i>Processing...</i>"

\* What the user can type into the prompt box (stripped), the screenshot the
\* grabber returns, the values TOGETHER_API_KEY can have, and the message of
\* an exception raised by the transport.
Prompts == {"explain this"}
Images == {"IMG"}
ApiKeys == {NoKey, "sk-key"}
ExcMsgs == {"timeout"}

\* One element of the response stream.  choices: the chunk has no choices
\* attribute / an empty list / a first choice; delta: that choice has a
\* delta; text: the delta's content ("" when None or empty).
Chunk(c, d, t) == [choices |-> c, delta |-> d, text |-> t]
Chunks == {Chunk("absent", FALSE, ""), Chunk("empty", FALSE, ""),
           Chunk("some", FALSE, ""), Chunk("some", TRUE, ""),
           Chunk("some", TRUE, "Hel"), Chunk("some", TRUE, "lo")}

TextArea(fmt, kind, src) == [format |-> fmt, kind |-> kind, src |-> src]

\* messages[0].content of a request: plain text, or a text part and an
\* image_url part.
Content(kind, text, url) == [kind |-> kind, text |-> text, image_url |-> url]
NoRequest == [model |-> "", content |-> Content("none", "", ""), stream |-> FALSE]

\* base64 PNG of the image as a data URI
Encode(image) == "data:image/png;base64," \o "b64(" \o image \o ")"

\* The loop body with the fragment put in front of the text so far.
Accumulate_prepend(response_text, chunk) ==
    IF chunk.choices = "some" /\ chunk.delta /\ chunk.text # ""
    THEN chunk.text \o response_text
    ELSE response_text

(***************************************************************************)
(* The loop body of analyze_image / send_text_prompt                       *)
(***************************************************************************)
Accumulate(response_text, chunk) ==
    IF chunk.choices = "some"
    THEN IF chunk.delta /\ chunk.text # ""
         THEN response_text \o chunk.text
         ELSE response_text
    ELSE response_text

(***************************************************************************)
(* AnalysisWorker objects                                                  *)
(***************************************************************************)
WorkerIds == DOMAIN workers

IdleWorker ==
    [pc |-> "idle", image |-> NoImage, prompt |-> "", path |-> "none",
     request |-> NoRequest, response_text |-> "", received |-> <<>>,
     encodes |-> 0, netCalls |-> 0, fault |-> "none", faultMsg |-> "",
     nFinished |-> 0, nError |-> 0, overlaps |-> FALSE]

Signal(w, kind, text) == [worker |-> w, kind |-> kind, text |-> text]
NoSignal == Signal(0, "none", "")

\* Workers that were started and whose outcome no slot has received yet
InFlight ==
    {w \in WorkerIds :
        /\ workers[w].pc # "idle"
        /\ \/ workers[w].pc # "done"
           \/ \E i \in DOMAIN sigq : sigq[i].worker = w}

\* AnalysisWorker.__init__ followed by start().  overlaps records that the
\* worker was started while an earlier one was still in flight.
NewWorker(image, prompt) ==
    [IdleWorker EXCEPT !.pc = "run", !.image = image, !.prompt = prompt,
                       !.overlaps = (InFlight # {})]

FreeIds == {w \in WorkerIds : workers[w].pc = "idle"}
NextId == CHOOSE w \in FreeIds : \A v \in FreeIds : w <= v

(***************************************************************************)
(* Initial state: the window is constructed and not yet shown.             *)
(***************************************************************************)
Init ==
    /\ platform \in Platforms
    /\ exstyle \in InitStyles
    /\ affinity = WDA_NONE
    /\ translucent = TRUE
    /\ opacity = 90
    /\ status_label = STATUS_INIT
    /\ text_area = TextArea("RichText", "plain", "")
    /\ shown = FALSE
    /\ appRunning = TRUE
    /\ handler = "__init__"
    /\ completed = TRUE
    /\ calls = <<>>
    /\ diag = <<>>
    /\ apiKey \in ApiKeys
    /\ workers = [w \in 1..MaxWorkers |-> IdleWorker]
    /\ current = 0
    /\ sigq = <<>>
    /\ slotArg = NoSignal

(***************************************************************************)
(* UI thread                                                               *)
(***************************************************************************)
UiReady == appRunning /\ shown

\* main: window.show() -> showEvent -> apply_privacy
ShowEvent ==
    /\ appRunning /\ ~shown
    /\ \E in \in PrivacyInputs :
         LET w == [platform |-> platform, exstyle |-> exstyle,
                   affinity |-> affinity, translucent |-> translucent,
                   opacity |-> opacity]
             r == apply_privacy(w, in)
         IN  /\ exstyle' = r.exstyle
             /\ affinity' = r.affinity
             /\ translucent' = r.translucent
             /\ opacity' = r.opacity
             /\ status_label' = r.status
             /\ calls' = r.calls
             /\ diag' = r.diag
    /\ shown' = TRUE
    /\ handler' = "apply_privacy"
    /\ completed' = TRUE
    /\ slotArg' = NoSignal
    /\ UNCHANGED <<platform, text_area, appRunning, apiKey, workers, current,
                   sigq>>

\* on_custom_prompt calling run() itself instead of start(): the client is
\* built and the request made inside the handler.
OnCustomPrompt_inline ==
    /\ UiReady /\ FreeIds # {} /\ apiKey # NoKey
    /\ \E p \in Prompts :
         workers' = [workers EXCEPT
                       ![NextId] = [NewWorker(NoImage, p) EXCEPT
                                      !.pc = "streaming",
                                      !.path = "send_text_prompt",
                                      !.netCalls = 1]]
    /\ current' = NextId
    /\ status_label' = "Sending Prompt..."
    /\ text_area' = TextArea("RichText", "plain", PROCESSING)
    /\ handler' = "on_custom_prompt"
    /\ completed' = TRUE
    /\ calls' = <<>>
    /\ diag' = <<>>
    /\ slotArg' = NoSignal
    /\ UNCHANGED <<winVars, shown, appRunning, apiKey, sigq>>

\* OverlayWindow.on_custom_prompt
OnCustomPrompt ==
    /\ UiReady /\ FreeIds # {}
    /\ \E p \in Prompts :
         workers' = [workers EXCEPT ![NextId] = NewWorker(NoImage, p)]
    /\ current' = NextId
    /\ status_label' = "Sending Prompt..."
    /\ text_area' = TextArea("RichText", "plain", PROCESSING)
    /\ handler' = "on_custom_prompt"
    /\ completed' = TRUE
    /\ calls' = <<>>
    /\ diag' = <<>>
    /\ slotArg' = NoSignal
    /\ UNCHANGED <<winVars, shown, appRunning, apiKey, sigq>>

\* utils.take_screenshot: the grabbed image, or None when the grab raises
take_screenshot(ok, img) == IF ok THEN img ELSE NoImage

ForegroundCalls == <<Call("SetForegroundWindow", 0, 0)>>

\* The capture without the check of the screenshot: a worker is started
\* with whatever take_screenshot returned.
CaptureAndStart_unchecked(name, status, prompt) ==
    \E ok \in BOOLEAN, img \in Images :
      /\ FreeIds # {}
      /\ handler' = name
      /\ completed' = TRUE
      /\ calls' = ForegroundCalls \o
                  <<Call("ImageGrab.grab", 0, IF ok THEN 1 ELSE None)>>
      /\ diag' = IF ok THEN <<>> ELSE <<"Error taking screenshot">>
      /\ text_area' = TextArea("RichText", "plain", PROCESSING)
      /\ status_label' = status
      /\ workers' = [workers EXCEPT
                       ![NextId] = NewWorker(take_screenshot(ok, img), prompt)]
      /\ current' = NextId
      /\ slotArg' = NoSignal
      /\ UNCHANGED <<winVars, shown, appRunning, apiKey, sigq>>

\* The part start_analysis and start_analysis_with_prompt share: bring the
\* window to the foreground, show the status, grab the screen, start a worker.
CaptureAndStart(name, status, prompt) ==
    \E ok \in BOOLEAN, img \in Images :
      LET screenshot == take_screenshot(ok, img)
      IN  /\ handler' = name
          /\ completed' = TRUE
          /\ calls' = ForegroundCalls \o
                      <<Call("ImageGrab.grab", 0, IF ok THEN 1 ELSE None)>>
          /\ diag' = IF ok THEN <<>> ELSE <<"Error taking screenshot">>
          /\ text_area' = TextArea("RichText", "plain", PROCESSING)
          /\ IF screenshot = NoImage
             THEN /\ status_label' = "Screenshot Failed"
                  /\ UNCHANGED <<workers, current>>
             ELSE /\ FreeIds # {}
                  /\ status_label' = status
                  /\ workers' = [workers EXCEPT
                                   ![NextId] = NewWorker(screenshot, prompt)]
                  /\ current' = NextId
          /\ slotArg' = NoSignal
          /\ UNCHANGED <<winVars, shown, appRunning, apiKey, sigq>>

\* OverlayWindow.start_analysis
StartAnalysis ==
    /\ UiReady
    /\ CaptureAndStart("start_analysis", "Capturing & Analyzing...",
                       DEFAULT_PROMPT)

\* OverlayWindow.start_analysis_with_prompt
StartAnalysisWithPrompt ==
    /\ UiReady
    /\ \E prompt_text \in Prompts \cup {""} :
         IF prompt_text = ""
         THEN /\ status_label' = "Error: Please enter a prompt first"
              /\ text_area' = TextArea(text_area.format, "plain",
                                       "Please enter a prompt and try again")
              /\ handler' = "start_analysis_with_prompt"
              /\ completed' = TRUE
              /\ calls' = <<>>
              /\ diag' = <<>>
              /\ slotArg' = NoSignal
              /\ UNCHANGED <<winVars, shown, appRunning, apiKey, workers,
                             current, sigq>>
         ELSE CaptureAndStart("start_analysis_with_prompt",
                              "Capturing & Analyzing with Prompt...",
                              prompt_text)

\* OverlayWindow.on_analysis_finished: markdown rendered to styled HTML
on_analysis_finished(result_markdown) ==
    [status |-> "Ready",
     text_area |-> TextArea("RichText", "html", result_markdown),
     completed |-> TRUE]

\* OverlayWindow.on_analysis_error: text_area is a QLabel, which has no
\* setPlainText, so the second statement raises AttributeError in the slot.
on_analysis_error(error_msg, old_text_area) ==
    [status |-> "Error",
     text_area |-> old_text_area,
     completed |-> FALSE]

\* The event loop takes the next queued signal and runs the connected slot.
\* An exception raised in a slot either aborts the process or is printed
\* and dropped, depending on the binding's exception hook.
Deliver ==
    /\ UiReady /\ sigq # <<>>
    /\ LET s == Head(sigq)
           r == IF s.kind = "finished"
                THEN on_analysis_finished(s.text)
                ELSE on_analysis_error(s.text, text_area)
       IN  /\ status_label' = r.status
           /\ text_area' = r.text_area
           /\ completed' = r.completed
           /\ handler' = IF s.kind = "finished" THEN "on_analysis_finished"
                                                ELSE "on_analysis_error"
           /\ IF r.completed THEN appRunning' = TRUE
                             ELSE appRunning' \in BOOLEAN
    /\ slotArg' = Head(sigq)
    /\ sigq' = Tail(sigq)
    /\ calls' = <<>>
    /\ diag' = <<>>
    /\ UNCHANGED <<winVars, shown, apiKey, workers, current>>

(***************************************************************************)
(* Worker threads: AnalysisWorker.run                                      *)
(***************************************************************************)
Emit(w, kind, text) == sigq' = Append(sigq, Signal(w, kind, text))

\* run without the credential check: the client is built whatever the key.
WorkerInit_unchecked(w) ==
    /\ appRunning /\ workers[w].pc = "run"
    /\ workers' = [workers EXCEPT ![w].pc = "client"]
    /\ UNCHANGED <<winVars, uiVars, apiKey, sigq>>

\* APIClient.__init__
WorkerInit(w) ==
    /\ appRunning /\ workers[w].pc = "run"
    /\ IF apiKey = NoKey
       THEN /\ workers' = [workers EXCEPT ![w].pc = "done",
                                          ![w].fault = "config",
                                          ![w].faultMsg = KEY_MISSING_MSG,
                                          ![w].nError = @ + 1]
            /\ Emit(w, "error", KEY_MISSING_MSG)
       ELSE /\ workers' = [workers EXCEPT ![w].pc = "client"]
            /\ UNCHANGED sigq
    /\ UNCHANGED <<winVars, uiVars, apiKey>>

\* The request analyze_image builds
ImageRequest(image, prompt) ==
    [model |-> MODEL_NAME,
     content |-> Content("parts", prompt, Encode(image)),
     stream |-> TRUE]

\* The request send_text_prompt builds
TextRequest(prompt) ==
    [model |-> MODEL_NAME,
     content |-> Content("text", prompt \o "concisely.", ""),
     stream |-> TRUE]

AnalyzeImageError(msg) == "Error analyzing image: " \o msg
SendPromptError(msg) == "Error sending prompt: " \o msg
ErrorText(path, msg) ==
    IF path = "analyze_image" THEN AnalyzeImageError(msg) ELSE SendPromptError(msg)

\* run's branch on self.image, and the method up to the create() call.
\* outcome "encode_raise": image.save raises (analyze_image only), nothing
\* is sent; "create_raise": create() raises.  Either way the method's
\* except clause returns the error text and run emits it through finished.
WorkerRequest(w) ==
    /\ appRunning /\ workers[w].pc = "client"
    /\ \E outcome \in {"ok", "encode_raise", "create_raise"}, msg \in ExcMsgs :
         LET me == workers[w]
             path == IF me.image # NoImage THEN "analyze_image"
                                          ELSE "send_text_prompt"
             req == IF path = "analyze_image"
                    THEN ImageRequest(me.image, me.prompt)
                    ELSE TextRequest(me.prompt)
             enc == IF path = "analyze_image" THEN 1 ELSE 0
         IN  /\ outcome = "encode_raise" => path = "analyze_image"
             /\ IF outcome = "ok"
                THEN /\ workers' = [workers EXCEPT ![w].pc = "streaming",
                                                   ![w].path = path,
                                                   ![w].request = req,
                                                   ![w].encodes = @ + enc,
                                                   ![w].netCalls = @ + 1]
                     /\ UNCHANGED sigq
                ELSE IF outcome = "create_raise"
                THEN /\ workers' = [workers EXCEPT ![w].pc = "done",
                                                   ![w].path = path,
                                                   ![w].request = req,
                                                   ![w].encodes = @ + enc,
                                                   ![w].netCalls = @ + 1,
                                                   ![w].fault = "transport",
                                                   ![w].faultMsg = msg,
                                                   ![w].nFinished = @ + 1]
                     /\ Emit(w, "finished", ErrorText(path, msg))
                ELSE /\ workers' = [workers EXCEPT ![w].pc = "done",
                                                   ![w].path = path,
                                                   ![w].encodes = @ + enc,
                                                   ![w].fault = "encode",
                                                   ![w].faultMsg = msg,
                                                   ![w].nFinished = @ + 1]
                     /\ Emit(w, "finished", ErrorText(path, msg))
    /\ UNCHANGED <<winVars, uiVars, apiKey>>

\* A loop that reports the text so far after every chunk.
StreamChunk_reporting(w) ==
    /\ appRunning /\ workers[w].pc = "streaming"
    /\ Len(workers[w].received) < MaxChunks
    /\ \E chunk \in Chunks :
         /\ workers' = [workers EXCEPT
                          ![w].response_text = Accumulate(@, chunk),
                          ![w].received = Append(@, chunk.text),
                          ![w].nFinished = @ + 1]
         /\ sigq' = Append(sigq, [worker |-> w, kind |-> "finished",
                                  text |-> Accumulate(workers[w].response_text, chunk)])
    /\ UNCHANGED <<winVars, uiVars, apiKey>>

\* for chunk in stream: one iteration
StreamChunk(w) ==
    /\ appRunning /\ workers[w].pc = "streaming"
    /\ Len(workers[w].received) < MaxChunks
    /\ \E chunk \in Chunks :
         workers' = [workers EXCEPT
                       ![w].response_text = Accumulate(@, chunk),
                       ![w].received = Append(@, chunk.text)]
    /\ UNCHANGED <<winVars, uiVars, apiKey, sigq>>

\* End of stream: the method returns response_text, run emits finished.
StreamEnd(w) ==
    /\ appRunning /\ workers[w].pc = "streaming"
    /\ workers' = [workers EXCEPT ![w].pc = "done", ![w].nFinished = @ + 1]
    /\ Emit(w, "finished", workers[w].response_text)
    /\ UNCHANGED <<winVars, uiVars, apiKey>>

\* The stream raises while being iterated: the method's except clause
\* returns the error text, run emits it through finished.
StreamRaise(w) ==
    /\ appRunning /\ workers[w].pc = "streaming"
    /\ \E msg \in ExcMsgs :
         /\ workers' = [workers EXCEPT ![w].pc = "done",
                                       ![w].fault = "transport",
                                       ![w].faultMsg = msg,
                                       ![w].nFinished = @ + 1]
         /\ Emit(w, "finished", ErrorText(workers[w].path, msg))
    /\ UNCHANGED <<winVars, uiVars, apiKey>>

WorkerStep ==
    \E w \in WorkerIds :
       \/ WorkerInit(w)
       \/ WorkerRequest(w)
       \/ StreamChunk(w)
       \/ StreamEnd(w)
       \/ StreamRaise(w)

Next ==
    \/ ShowEvent
    \/ OnCustomPrompt
    \/ StartAnalysis
    \/ StartAnalysisWithPrompt
    \/ Deliver
    \/ WorkerStep

Spec == Init /\ [][Next]_vars

(***************************************************************************)
(* The window on its own: construction, then the first show.               *)
(***************************************************************************)
NextPrivacy == ShowEvent

SpecPrivacy == Init /\ [][NextPrivacy]_vars

(***************************************************************************)
(* The analysis pipeline on its own.  None of its code reads the window    *)
(* style, the affinity or the platform, so it is run from the states right *)
(* after the first show of a layered window on Windows whose first         *)
(* affinity call succeeded.                                                *)
(***************************************************************************)
FirstShowInputs ==
    [read1 |-> TRUE, read2 |-> TRUE, s1 |-> "ok", f1 |-> "ok",
     s2 |-> "ok", f2 |-> "ok", qt |-> FALSE]

InitShownWith(nWorkers) ==
    LET w == [platform |-> "Windows",
              exstyle |-> WS_EX_TOPMOST + WS_EX_LAYERED,
              affinity |-> WDA_NONE, translucent |-> TRUE, opacity |-> 90]
        r == apply_privacy(w, FirstShowInputs)
    IN  /\ platform = w.platform
        /\ exstyle = r.exstyle
        /\ affinity = r.affinity
        /\ translucent = r.translucent
        /\ opacity = r.opacity
        /\ status_label = r.status
        /\ text_area = TextArea("RichText", "plain", "")
        /\ shown = TRUE
        /\ appRunning = TRUE
        /\ handler = "apply_privacy"
        /\ completed = TRUE
        /\ calls = r.calls
        /\ diag = r.diag
        /\ apiKey \in ApiKeys
        /\ workers = [v \in 1..nWorkers |-> IdleWorker]
        /\ current = 0
        /\ sigq = <<>>
        /\ slotArg = NoSignal

InitShown == InitShownWith(MaxWorkers)

NextAnalysis ==
    \/ OnCustomPrompt
    \/ StartAnalysis
    \/ StartAnalysisWithPrompt
    \/ Deliver
    \/ WorkerStep

SpecAnalysis == InitShown /\ [][NextAnalysis]_vars

(***************************************************************************)
(* The analysis pipeline with room for requests that overlap.              *)
(***************************************************************************)
InitOverlap == InitShownWith(MaxOverlap)

SpecOverlap == InitOverlap /\ [][NextAnalysis]_vars

(***************************************************************************)
(* Properties                                                              *)
(***************************************************************************)
Range(s) == {s[i] : i \in DOMAIN s}
CallsTo(log, fns) == {i \in DOMAIN log : log[i].fn \in fns}
AffinityCalls(log) == CallsTo(log, {"SetWindowDisplayAffinity"})
AttributeCalls(log) == CallsTo(log, {"setAttribute", "setWindowOpacity"})
StyleWrites(log) == CallsTo(log, {"SetWindowLong", "SetWindowPos"})
SignalsOf(w) == {i \in DOMAIN sigq : sigq[i].worker = w}

\* C1: when apply_privacy returns, the window's extended style equals the
\* value it had immediately before the call, on every path (first attempt
\* succeeds, retry succeeds, both attempts fail), also when a style read
\* fails and returns None.
C1_ExstylePreserved ==
    [][handler' = "apply_privacy" => exstyle' = exstyle]_vars

\* C2: on a platform that is not Windows, apply_privacy reports failure
\* without any style-clearing call (SetWindowLong / SetWindowPos) and
\* without any OS affinity call.
C2_NoMutationOffWindows ==
    (handler = "apply_privacy" /\ platform # "Windows") =>
        /\ status_label = STATUS_PRIVACY_FAIL
        /\ StyleWrites(calls) = {}
        /\ AffinityCalls(calls) = {}

\* C3: a worker whose request hit a transport failure emits the error
\* signal carrying the exception's message and never the finished signal.
C3_TransportFailureIsError ==
    \A w \in WorkerIds :
        (workers[w].pc = "done" /\ workers[w].fault = "transport") =>
            /\ workers[w].nError = 1
            /\ workers[w].nFinished = 0
            /\ \A i \in SignalsOf(w) : sigq[i].kind = "error"

\* C4: no failure terminates the process and every failure handler runs to
\* completion, leaving a message in the window: after on_analysis_error the
\* application still runs, the handler has completed and the text area
\* shows the error message.
C4_FailuresReported ==
    /\ appRunning
    /\ completed
    /\ (handler = "on_analysis_error" => text_area.kind = "plain"
                                        /\ text_area.src # PROCESSING)

\* C5: each started worker emits at most one signal, exactly one once run
\* has returned, never both kinds; nothing is emitted while the response is
\* still being accumulated, and the text of a finished signal of a run
\* without failure is the whole accumulated response.
C5_ExactlyOneOutcome ==
    \A w \in WorkerIds :
        LET me == workers[w]
        IN  /\ me.nFinished + me.nError <= 1
            /\ (me.pc = "done") <=> (me.nFinished + me.nError = 1)
            /\ Cardinality(SignalsOf(w)) <= me.nFinished + me.nError
            /\ me.pc # "done" => SignalsOf(w) = {}
            /\ \A i \in SignalsOf(w) :
                 /\ (sigq[i].kind = "finished") <=> (me.nFinished = 1)
                 /\ (sigq[i].kind = "finished" /\ me.fault = "none")
                        => sigq[i].text = me.response_text

C5_Witness ==
    \E w \in WorkerIds :
        /\ workers[w].pc = "done"
        /\ workers[w].fault = "none"
        /\ Len(workers[w].received) >= 2
        /\ workers[w].response_text # ""
        /\ SignalsOf(w) # {}

\* The strong call failed and the fallback call that followed it succeeded.
FallbackUsedAt(log, i) ==
    /\ i \in DOMAIN log /\ i + 1 \in DOMAIN log
    /\ log[i] = Call("SetWindowDisplayAffinity", WDA_EXCLUDEFROMCAPTURE, 0)
    /\ log[i + 1] = Call("SetWindowDisplayAffinity", WDA_MONITOR, 1)

FirstAffinityCall(log) ==
    CHOOSE i \in AffinityCalls(log) : \A j \in AffinityCalls(log) : i <= j

\* C6: when the strong mode fails and the fallback mode succeeds,
\* set_window_affinity(hwnd, allow_capture=False) returns True, apply_privacy
\* shows Privacy On, the diagnostic says the fallback was used, and when this
\* happened in the first attempt no translucency retry was made.
C6_FallbackIsSuccess ==
    /\ \A plat \in Platforms, aff \in {WDA_NONE, WDA_MONITOR} :
         plat = "Windows" =>
            set_window_affinity(plat, aff, FALSE, "fail", "ok").ret = TRUE
    /\ handler = "apply_privacy" =>
         \A i \in DOMAIN calls :
            FallbackUsedAt(calls, i) =>
               /\ status_label = STATUS_PRIVACY_ON
               /\ affinity = WDA_MONITOR
               /\ "Fallback to WDA_MONITOR successful." \in Range(diag)
               /\ i = FirstAffinityCall(calls) => AttributeCalls(calls) = {}

C6_Witness ==
    /\ handler = "apply_privacy"
    /\ AffinityCalls(calls) # {}
    /\ FallbackUsedAt(calls, FirstAffinityCall(calls))
    /\ status_label = STATUS_PRIVACY_ON

\* The first attempt of the apply_privacy call recorded in log succeeded.
FirstAttemptSucceeded(log) ==
    /\ AffinityCalls(log) # {}
    /\ LET i == FirstAffinityCall(log)
       IN  log[i].ret = 1 \/ FallbackUsedAt(log, i)

\* C7: when apply_privacy takes the retry path, WA_TranslucentBackground and
\* the window opacity are back at their pre-call values when it returns,
\* whether the retry succeeded or failed; when the first attempt succeeds
\* neither attribute is touched.
C7_AttributesRestored ==
    [][handler' = "apply_privacy" =>
          /\ translucent' = translucent
          /\ opacity' = opacity
          /\ FirstAttemptSucceeded(calls') => AttributeCalls(calls') = {}
          /\ ~FirstAttemptSucceeded(calls') =>
                /\ Call("setAttribute", 0, 0) \in Range(calls')
                /\ Call("setWindowOpacity", 100, 0) \in Range(calls')
                /\ calls'[Len(calls') - 1] =
                      Call("setAttribute", IF translucent THEN 1 ELSE 0, 0)
                /\ calls'[Len(calls')] = Call("setWindowOpacity", opacity, 0)]_vars

C7_Witness ==
    /\ handler = "apply_privacy"
    /\ ~FirstAttemptSucceeded(calls)
    /\ Call("setWindowOpacity", 100, 0) \in Range(calls)
    /\ status_label = STATUS_PRIVACY_ON
    /\ translucent /\ opacity = 90

\* C8: without an API credential the worker makes no call to the endpoint
\* and builds no request; it emits the error signal, once, carrying the
\* configuration error's message, and never the finished signal.
C8_MissingKeyBeforeNetwork ==
    \A w \in WorkerIds :
        LET me == workers[w]
        IN  /\ (apiKey = NoKey /\ me.pc \notin {"idle", "run"}) =>
                  /\ me.pc = "done"
                  /\ me.fault = "config"
                  /\ me.netCalls = 0
                  /\ me.encodes = 0
                  /\ me.request = NoRequest
                  /\ me.nError = 1 /\ me.nFinished = 0
                  /\ \A i \in SignalsOf(w) :
                        sigq[i] = Signal(w, "error", KEY_MISSING_MSG)
            /\ me.fault = "config" => apiKey = NoKey

C8_Witness ==
    \E w \in WorkerIds :
        /\ apiKey = NoKey
        /\ workers[w].fault = "config"
        /\ workers[w].netCalls = 0
        /\ \E i \in SignalsOf(w) : sigq[i].kind = "error"

\* C9: without an image the worker takes send_text_prompt, encodes no image
\* and sends one user message whose content is the prompt text and no image
\* part; with an image the request carries the prompt and the image.
C9_TextOnlyPath ==
    \A w \in WorkerIds :
        LET me == workers[w]
        IN  (me.path # "none" /\ me.fault # "encode") =>
              IF me.image = NoImage
              THEN /\ me.path = "send_text_prompt"
                   /\ me.encodes = 0
                   /\ me.request.content = Content("text", me.prompt, "")
              ELSE /\ me.path = "analyze_image"
                   /\ me.request.content =
                         Content("parts", me.prompt, Encode(me.image))

\* The fragments of a stream joined in arrival order.
RECURSIVE ConcatInOrder(_)
ConcatInOrder(fragments) ==
    IF fragments = <<>> THEN ""
    ELSE Head(fragments) \o ConcatInOrder(Tail(fragments))

\* C10: the text accumulated from a stream is the concatenation of the
\* fragments' contents in arrival order, chunks without choices or content
\* adding nothing; it is what the method returns at the end of the stream.
C10_ConcatenationInOrder ==
    \A w \in WorkerIds :
        LET me == workers[w]
        IN  me.fault = "none" =>
              /\ me.response_text = ConcatInOrder(me.received)
              /\ \A i \in SignalsOf(w) :
                    sigq[i].text = ConcatInOrder(me.received)

C10_Witness ==
    \E w \in WorkerIds :
        /\ workers[w].pc = "done"
        /\ workers[w].fault = "none"
        /\ workers[w].received = <<"Hel", "lo">>
        /\ \E i \in SignalsOf(w) : sigq[i].text = "Hello"

\* The handler recorded in log grabbed the screen and the grab failed /
\* returned an image.
GrabFailed(log) == Call("ImageGrab.grab", 0, None) \in Range(log)
GrabSucceeded(log) == Call("ImageGrab.grab", 0, 1) \in Range(log)

\* C11: when the screen capture fails, take_screenshot returns None and the
\* request is aborted: the handler starts no AnalysisWorker, nothing is sent
\* or queued, and the status shows the screenshot-failure message.
C11_ScreenshotFailureAborts ==
    /\ [](\A img \in Images : take_screenshot(FALSE, img) = NoImage)
    /\ [][((StartAnalysis \/ StartAnalysisWithPrompt) /\ GrabFailed(calls')) =>
            /\ workers' = workers
            /\ current' = current
            /\ sigq' = sigq
            /\ status_label' = "Screenshot Failed"
            /\ appRunning' /\ completed']_vars

C11_Witness ==
    /\ handler \in {"start_analysis", "start_analysis_with_prompt"}
    /\ GrabFailed(calls)
    /\ status_label = "Screenshot Failed"
    /\ \A w \in WorkerIds : workers[w].pc = "idle"
    /\ sigq = <<>>

\* Some request was issued while an earlier one was still in flight.
RequestsOverlap == \E w \in WorkerIds : workers[w].overlaps

\* What the window shows once the slot invoked with signal s has run
Shown(s) ==
    IF s.kind = "finished" THEN TextArea("RichText", "html", s.text)
    ELSE TextArea("RichText", "plain", "Error: " \o s.text)

\* C12: a request issued while an earlier one is in flight starts a second
\* worker without touching the first; both run on, each outcome reaches its
\* slot, and the window shows the outcome delivered last: with overlapping
\* requests, after every delivery the application still runs, the slot has
\* completed and the text area shows the delivered outcome.
C12_OverlappingOutcomesShown ==
    /\ [][(OnCustomPrompt \/ StartAnalysis \/ StartAnalysisWithPrompt) =>
            /\ sigq' = sigq
            /\ \A w \in WorkerIds :
                  workers[w].pc # "idle" => workers'[w] = workers[w]]_vars
    /\ []((RequestsOverlap /\ slotArg # NoSignal) =>
            /\ appRunning
            /\ completed
            /\ text_area = Shown(slotArg))

\* The step builds the API client of worker w, sends its request or reads
\* its stream (run has left the state start() put it in, or moves on).
RunsWorker(w) ==
    /\ workers[w].pc \in {"run", "client", "streaming"}
    /\ workers'[w] # workers[w]

\* A worker's request is in flight.
RequestInFlight == \E w \in WorkerIds : workers[w].pc \in {"client", "streaming"}

\* C13: the client construction and every call to the endpoint are steps of
\* a worker thread and never part of a UI handler: a step that runs a worker
\* changes nothing of the UI thread's state, a worker a handler has just
\* started has not run yet and has made no call, and while a request is in
\* flight the UI thread can still take a user action.
C13_NetworkOffUiThread ==
    /\ [][\A w \in WorkerIds :
             /\ RunsWorker(w) => UNCHANGED uiVars
             /\ (workers[w].pc = "idle" /\ workers'[w].pc # "idle") =>
                   /\ workers'[w].pc = "run"
                   /\ workers'[w].netCalls = 0
                   /\ workers'[w].request = NoRequest]_vars
    /\ []((RequestInFlight /\ UiReady) => ENABLED StartAnalysisWithPrompt)

C13_Witness ==
    /\ \E w \in WorkerIds : workers[w].pc = "streaming" /\ workers[w].netCalls = 1
    /\ handler = "start_analysis_with_prompt"
    /\ status_label = "Error: Please enter a prompt first"

StrongCalls(log) ==
    {i \in AffinityCalls(log) : log[i].arg = WDA_EXCLUDEFROMCAPTURE}
FallbackCalls(log) == {i \in AffinityCalls(log) : log[i].arg = WDA_MONITOR}
RetryTaken(log) == AttributeCalls(log) # {}
FirstAttributeCall(log) ==
    CHOOSE i \in AttributeCalls(log) : \A j \in AttributeCalls(log) : i <= j

\* (a) the fallback mode is tried only right after the strong mode failed
C14_FallbackAfterStrong ==
    handler = "apply_privacy" =>
        \A i \in FallbackCalls(calls) :
            /\ i - 1 \in StrongCalls(calls)
            /\ calls[i - 1].ret = 0

\* (b) the retry is made only after both modes failed in the first attempt
C14_RetryAfterBothFailed ==
    (handler = "apply_privacy" /\ RetryTaken(calls)) =>
        \E i \in StrongCalls(calls), j \in FallbackCalls(calls) :
            /\ j = i + 1
            /\ j < FirstAttributeCall(calls)
            /\ calls[i].ret # 1
            /\ calls[j].ret # 1

\* (c) at most one retry: at most two attempts, at most four affinity calls
C14_Bounded ==
    handler = "apply_privacy" =>
        /\ Cardinality(StrongCalls(calls)) <= 2
        /\ Cardinality(AffinityCalls(calls)) <= 4
        /\ Cardinality({i \in DOMAIN calls :
                          calls[i] = Call("setWindowOpacity", 100, 0)}) <= 1

\* (d) Privacy On exactly when some attempt succeeded, Privacy Fail exactly
\* when every attempt failed
C14_StatusMatches ==
    handler = "apply_privacy" =>
        /\ status_label \in {STATUS_PRIVACY_ON, STATUS_PRIVACY_FAIL}
        /\ (status_label = STATUS_PRIVACY_ON) <=>
              (\E i \in AffinityCalls(calls) : calls[i].ret = 1)

\* C14: within one apply_privacy call the fallback mode is tried only after
\* the strong mode failed in the same attempt, the translucency-disabled
\* retry happens only after both modes failed in the first attempt and at
\* most once (at most two attempts, four affinity calls), and the status
\* shows Privacy On exactly when some attempt succeeded and Privacy Fail
\* exactly when every attempt failed.
C14_OrderedBoundedAttempts ==
    /\ C14_FallbackAfterStrong
    /\ C14_RetryAfterBothFailed
    /\ C14_Bounded
    /\ C14_StatusMatches

PrivacyEnabled == affinity # WDA_NONE

\* C15: every screenshot taken by start_analysis or
\* start_analysis_with_prompt is taken while the overlay window is excluded
\* from capture: no capture is taken when the last apply_privacy ended with
\* privacy not enabled.
C15_CaptureOnlyWhenExcluded ==
    [][((StartAnalysis \/ StartAnalysisWithPrompt) /\ GrabSucceeded(calls')) =>
            PrivacyEnabled]_vars
====
